---- MODULE Spec2Model ----
(***************************************************************************)
(* Turbine import pipeline of main.py: fetch_google_sheet_csv (URL         *)
(* resolution and fetch), parse_turbine_csv and import_turbines (upsert    *)
(* by name into the 'turbine' collection).                                 *)
(*                                                                         *)
(* Strings.  TLC cannot take a string apart, so a text the code splits is  *)
(* a sequence of tokens.  A URL is a sequence of the tokens of UrlTokens;  *)
(* no marker the code searches for ("/d/", "/", "gid=", "&",               *)
(* "export?format=csv") occurs inside another token or across a token      *)
(* boundary, so substring search and split on the text are search and      *)
(* split on the token sequence.  A CSV text is the sequence of its lines   *)
(* as csv.reader returns them: a line is the sequence of its cells, the    *)
(* blank line is the empty sequence.  A cell is a string.                  *)
(* A float is written as Python prints it ("10.5", "20.0").                *)
(***************************************************************************)
EXTENDS Integers, Sequences, FiniteSets, TLC

VARIABLES
    db,          \* the global store handle: None when not configured
    turbine,     \* db['turbine']: the stored documents, in insertion order
    pc,          \* per request: position in import_turbines
    export_url,  \* per request: the URL handed to requests.get
    turbines,    \* per request: the records parse_turbine_csv returned
    idx,         \* per request: index of the record the loop is at
    existing,    \* per request: the result of the last find_one
    inserted,    \* per request: the local counter inserted
    updated,     \* per request: the local counter updated
    response,    \* per request: the HTTP response sent (status 0: none yet)
    fetch,       \* history: how the request's call of requests.get ended
    netCalls,    \* history: calls of requests.get made by the request
    storeOps,    \* history: store operations attempted by the request
    before,      \* history: the catalog when the request began
    prev,        \* history: summary of the request completed before this one
    lastWrite,   \* history: per name, the data fields of the last write
    arg,         \* input of the pure function under check
    ret          \* its outcome

vars == <<db, turbine, pc, export_url, turbines, idx, existing, inserted,
          updated, response, fetch, netCalls, storeOps, before, prev,
          lastWrite, arg, ret>>

None == "<None>"

----------------------------------------------------------------------------
(* Bounds *)

MaxUrlLen == 5
MaxRows == 2
MaxParseRows == 2
MaxConcRows == 2

----------------------------------------------------------------------------
(* Python helpers on sequences of tokens *)

\* x in s
Contains(s, x) == \E k \in 1..Len(s) : s[k] = x

\* s.index(x), for x in s
IndexOf(s, x) == CHOOSE k \in 1..Len(s) : s[k] = x /\ \A j \in 1..(k-1) : s[j] # x

\* s.split(x): the segments between the occurrences of x
RECURSIVE Split(_, _)
Split(s, x) ==
    IF ~Contains(s, x) THEN <<s>>
    ELSE <<SubSeq(s, 1, IndexOf(s, x) - 1)>>
            \o Split(SubSeq(s, IndexOf(s, x) + 1, Len(s)), x)

----------------------------------------------------------------------------
(* fetch_google_sheet_csv, up to the call of requests.get *)

HTTPException(code, text) == [status_code |-> code, detail |-> text]

BadRequest == 400
ServerError == 500
OK == 200

\* lines 86-91: gid stays None without "gid=", else the text after the first
\* "gid=" up to the next "gid=" or "&"
GidOf(sheet_url) ==
    IF Contains(sheet_url, "gid=")
    THEN Split(Split(sheet_url, "gid=")[2], "&")[1]
    ELSE <<None>>

\* if gid: None and '' are both false
Truthy(gid) == gid # <<None>> /\ gid # <<>>

\* lines 92-95
ExportUrlOf(doc_id, gid) ==
    IF Truthy(gid)
    THEN <<"https://docs.google.com/spreadsheets/d/">> \o doc_id
            \o <<"/export?format=csv&gid=">> \o gid
    ELSE <<"https://docs.google.com/spreadsheets/d/">> \o doc_id
            \o <<"/export?format=csv">>

\* mutant: the last segment is taken instead of the second, so a link without
\* "/d/" is not refused
ResolveUrl_LastSegment(sheet_url) ==
    IF Contains(sheet_url, "export?format=csv")
    THEN [raised |-> FALSE, export_url |-> sheet_url]
    ELSE [raised |-> FALSE,
          export_url |->
              ExportUrlOf(Split(Split(sheet_url, "/d/")[Len(Split(sheet_url, "/d/"))],
                                "/")[1],
                          GidOf(sheet_url))]

\* lines 75-95: the URL requests.get is called with, or the HTTPException
\* raised before any network call
ResolveUrl(sheet_url) ==
    IF Contains(sheet_url, "export?format=csv")
    THEN [raised |-> FALSE, export_url |-> sheet_url]
    ELSE IF Len(Split(sheet_url, "/d/")) < 2
    THEN [raised |-> TRUE,
          exc |-> HTTPException(BadRequest, "Invalid Google Sheets URL")]
    ELSE [raised |-> FALSE,
          export_url |-> ExportUrlOf(Split(Split(sheet_url, "/d/")[2], "/")[1],
                                     GidOf(sheet_url))]

----------------------------------------------------------------------------
(* parse_turbine_csv *)

\* str.strip() on the cells and column names the model uses
Strip(s) ==
    CASE s = " name " -> "name"
      [] s = " T1 " -> "T1"
      [] s = " " -> ""
      [] OTHER -> s

\* str.lower() on the column names the model uses
Lower(s) ==
    CASE s = "Name" -> "name"
      [] s = "STATUS" -> "status"
      [] s = "Lat" -> "lat"
      [] OTHER -> s

\* str.title() on the statuses the model uses
Title(s) ==
    CASE s = "active" -> "Active"
      [] s = "ACTIVE" -> "Active"
      [] s = "inactive" -> "Inactive"
      [] s = "in service" -> "In Service"
      [] s = "abc" -> "Abc"
      [] s = "NA" -> "Na"
      [] s = "x" -> "X"
      [] OTHER -> s

\* float(x) on the cells the model uses, written as Python prints a float;
\* "raise" stands for ValueError
Float(x) ==
    CASE x = "10.5" -> "10.5"
      [] x = "10.50" -> "10.5"
      [] x = "20" -> "20.0"
      [] x = "2.5" -> "2.5"
      [] OTHER -> "raise"

\* x or y
Or(x, y) == IF x # None /\ x # "" THEN x ELSE y

\* lines 122-126
to_float(x) ==
    IF x \notin {None, "", "NA", "N/A"}
    THEN (IF Float(x) = "raise" THEN None ELSE Float(x))
    ELSE None

\* csv.DictReader: the first line read is the header, blank or not
Fieldnames(csv_text) == IF csv_text = <<>> THEN <<>> ELSE csv_text[1]

\* csv.DictReader: the rows after the header, blank lines skipped
DataRows(csv_text) ==
    IF csv_text = <<>> THEN <<>>
    ELSE SelectSeq(Tail(csv_text), LAMBDA row : row # <<>>)

\* csv.DictReader: a row longer than the header puts the list of the extra
\* cells under the key None
HasRestKey(fieldnames, row) == Len(fieldnames) < Len(row)

\* row[k] of the dict csv.DictReader builds: the cell of the last column named
\* k, None (restval) when the row is too short to have it
RawValue(fieldnames, row, k) ==
    LET j == CHOOSE c \in 1..Len(fieldnames) :
                 /\ fieldnames[c] = k
                 /\ \A e \in (c+1)..Len(fieldnames) : fieldnames[e] # k
    IN  IF j <= Len(row) THEN row[j] ELSE None

\* normalized.get(key), line 114: the keys of the row are visited in the order
\* of their first column, and a later key with the same normal form wins
NormalizedGet(fieldnames, row, key) ==
    LET firsts == {c \in 1..Len(fieldnames) :
                      /\ Lower(Strip(fieldnames[c])) = key
                      /\ \A e \in 1..(c-1) : fieldnames[e] # fieldnames[c]}
    IN  IF firsts = {} THEN None
        ELSE LET j == CHOOSE c \in firsts : \A e \in firsts : e <= c
             IN  Strip(Or(RawValue(fieldnames, row, fieldnames[j]), ""))

\* normalized.get(a1) or normalized.get(a2) or ...
RECURSIVE FirstAlias(_, _, _)
FirstAlias(fieldnames, row, aliases) ==
    IF Len(aliases) = 1 THEN NormalizedGet(fieldnames, row, aliases[1])
    ELSE Or(NormalizedGet(fieldnames, row, aliases[1]),
            FirstAlias(fieldnames, row, Tail(aliases)))

\* the Turbine model of schemas.py: six data fields
Turbine(n, s, lat, lng, cap, loc) ==
    [name |-> n, status |-> s, latitude |-> lat, longitude |-> lng,
     capacity_mw |-> cap, location |-> loc]

\* lines 115-135: the record of one row
RecordOf(fieldnames, row) ==
    Turbine(
        Or(FirstAlias(fieldnames, row, <<"name", "turbine", "id", "identifier">>),
           "Unnamed Turbine"),
        Title(Or(FirstAlias(fieldnames, row, <<"status", "state">>), "Unknown")),
        to_float(FirstAlias(fieldnames, row, <<"lat", "latitude">>)),
        to_float(FirstAlias(fieldnames, row, <<"lng", "longitude">>)),
        to_float(FirstAlias(fieldnames, row, <<"capacity_mw", "capacity", "mw">>)),
        Or(FirstAlias(fieldnames, row, <<"location", "site", "address">>), None))

\* lines 103-138: the records returned, or the exception line 114 raises on
\* the first row that carries the key None (its value is a list, which has
\* no strip)
parse_turbine_csv(csv_text) ==
    IF \E k \in 1..Len(DataRows(csv_text)) :
           HasRestKey(Fieldnames(csv_text), DataRows(csv_text)[k])
    THEN [raised |-> TRUE, exc |-> "AttributeError"]
    ELSE [raised |-> FALSE,
          records |-> [k \in 1..Len(DataRows(csv_text)) |->
                          RecordOf(Fieldnames(csv_text), DataRows(csv_text)[k])]]

----------------------------------------------------------------------------
(* The 'turbine' collection *)

Req == {1, 2}

Doc(id, t) ==
    [_id |-> id, name |-> t.name, status |-> t.status, latitude |-> t.latitude,
     longitude |-> t.longitude, capacity_mw |-> t.capacity_mw,
     location |-> t.location]

\* the data fields of a stored document
Fields(d) ==
    Turbine(d.name, d.status, d.latitude, d.longitude, d.capacity_mw, d.location)

\* find_one found nothing
NoDoc == Doc(0, Turbine(None, None, None, None, None, None))

\* mutant: the lookup never finds the document
find_one_Missing(coll, n) == NoDoc

\* db['turbine'].find_one({'name': n}): the first document of that name
find_one(coll, n) ==
    IF \E k \in 1..Len(coll) : coll[k].name = n
    THEN coll[CHOOSE k \in 1..Len(coll) :
                 coll[k].name = n /\ \A j \in 1..(k-1) : coll[j].name # n]
    ELSE NoDoc

\* t.model_dump(): the six data fields
model_dump(t) ==
    Turbine(t.name, t.status, t.latitude, t.longitude, t.capacity_mw, t.location)

\* mutant: the update is lost
update_one_Lost(coll, id, payload) == coll

\* mutant: the update keeps the stored value of a field the payload has None
update_one_Merge(coll, id, payload) ==
    [k \in 1..Len(coll) |->
        IF coll[k]._id = id
        THEN [f \in DOMAIN coll[k] |->
                 IF f = "_id" \/ payload[f] = None THEN coll[k][f] ELSE payload[f]]
        ELSE coll[k]]

\* db['turbine'].update_one({'_id': id}, {'$set': payload})
update_one(coll, id, payload) ==
    [k \in 1..Len(coll) |->
        IF coll[k]._id = id /\ \A j \in 1..(k-1) : coll[j]._id # id
        THEN Doc(coll[k]._id, payload)
        ELSE coll[k]]

\* create_document('turbine', payload): a new document with an identifier the
\* store assigns
create_document(coll, payload) == Append(coll, Doc(Len(coll) + 1, payload))

\* the number of stored documents of name n (used by the claims only)
CountName(coll, n) == Cardinality({k \in 1..Len(coll) : coll[k].name = n})

StoredNames(coll) == {coll[k].name : k \in 1..Len(coll)}

----------------------------------------------------------------------------
(* Inputs *)

UrlTokens == {"/d/", "/", "gid=", "&", "export?format=csv", "ID", "7", "#"}

\* the sequences over S of length at most n
SeqsUpTo(S, n) == UNION {[1..k -> S] : k \in 0..n}

\* the links the resolver is checked on
Urls == SeqsUpTo(UrlTokens, MaxUrlLen)

\* the links the import requests carry: a share link with a gid, a link
\* without "/d/", an export link
SheetUrls ==
    { <<"https:", "/", "/", "docs.google.com", "/", "spreadsheets", "/d/", "ID",
        "/", "edit?", "gid=", "7">>,
      <<"https:", "/", "/", "example.com", "/", "sheet">>,
      <<"https:", "/", "/", "example.com", "/", "export?format=csv">> }

\* the lines of the sheets the import requests fetch, under Header
Header == <<"name", "status", "lat">>

Lines ==
    { <<"T1", "active", "10.5">>,
      <<"T1", "inactive", "">>,
      <<"T2", "active", "NA">>,
      <<>>,
      <<"T1", "active", "10.5", "x">> }

CsvTexts == {<<>>} \cup {<<Header>> \o q : q \in SeqsUpTo(Lines, MaxRows)}

\* the texts the parser is checked on
ParseHeaders ==
    { <<>>,
      <<"name", "status", "lat">>,
      <<" name ", "STATUS", "latitude">>,
      <<"Name", "name", "state">>,
      <<"turbine", "id", "site">> }

ParseLines ==
    { <<>>,
      <<"T1">>,
      <<"T1", "active", "10.50">>,
      <<"", "in service", "N/A">>,
      <<" T1 ", "T2", "abc">>,
      <<"T2", "ACTIVE", "20", "x">> }

ParseTexts ==
    {<<>>} \cup {<<h>> \o q : h \in ParseHeaders, q \in SeqsUpTo(ParseLines, MaxParseRows)}

\* the response statuses other than 200 the sheet server answers with
FailStatuses == {404, 503}

----------------------------------------------------------------------------
(* import_turbines *)

NoResponse == [status_code |-> 0, detail |-> "", inserted |-> 0, updated |-> 0]

\* a raised HTTPException as the response FastAPI sends
ErrorResponse(exc) ==
    [status_code |-> exc.status_code, detail |-> exc.detail,
     inserted |-> 0, updated |-> 0]

\* any other exception: FastAPI answers 500
Unhandled == HTTPException(ServerError, "Internal Server Error")

\* line 165
ImportResult(ins, upd) ==
    [status_code |-> OK, detail |-> "", inserted |-> ins, updated |-> upd]

NoSummary == [turbines |-> <<>>, status_code |-> 0, inserted |-> 0, updated |-> 0,
              stored |-> {}]

Names(ts) == [k \in 1..Len(ts) |-> ts[k].name]

\* mutant: the check of the store handle is missing
DbConfigured_Always(d) == TRUE

\* line 146
DbConfigured(d) == d # None

Finish(r, resp) ==
    /\ pc' = [pc EXCEPT ![r] = "done"]
    /\ response' = [response EXCEPT ![r] = resp]

\* lines 146-149 and 75-95: the request arrives; the handler checks the
\* store handle and resolves the link
ImportRequest(r, sheet_url) ==
    /\ pc[r] = "idle"
    /\ before' = [before EXCEPT ![r] = turbine]
    /\ IF ~DbConfigured(db)
       THEN /\ Finish(r, ErrorResponse(
                    HTTPException(ServerError, "Database not configured")))
            /\ UNCHANGED export_url
       ELSE IF ResolveUrl(sheet_url).raised
       THEN /\ Finish(r, ErrorResponse(ResolveUrl(sheet_url).exc))
            /\ UNCHANGED export_url
       ELSE /\ pc' = [pc EXCEPT ![r] = "get"]
            /\ export_url' = [export_url EXCEPT ![r] = ResolveUrl(sheet_url).export_url]
            /\ UNCHANGED response
    /\ UNCHANGED <<fetch, db, turbine, turbines, idx, existing, inserted, updated,
                   netCalls, storeOps, prev, lastWrite, arg, ret>>

\* line 97: requests.get raises (timeout, connection error); nothing catches it
GetRaises(r) ==
    /\ pc[r] = "get"
    /\ fetch' = [fetch EXCEPT ![r] = "raised"]
    /\ netCalls' = [netCalls EXCEPT ![r] = @ + 1]
    /\ Finish(r, ErrorResponse(Unhandled))
    /\ UNCHANGED <<db, turbine, export_url, turbines, idx, existing, inserted,
                   updated, storeOps, before, prev, lastWrite, arg, ret>>

\* lines 97-99: the sheet server answers with a status other than 200
GetFails(r, code) ==
    /\ pc[r] = "get"
    /\ fetch' = [fetch EXCEPT ![r] = "status"]
    /\ netCalls' = [netCalls EXCEPT ![r] = @ + 1]
    /\ Finish(r, ErrorResponse(HTTPException(BadRequest, <<"Failed to fetch sheet CSV: ", code>>)))
    /\ UNCHANGED <<db, turbine, export_url, turbines, idx, existing, inserted,
                   updated, storeOps, before, prev, lastWrite, arg, ret>>

\* lines 97-100, 150-153: the sheet server answers 200 with csv_text, which is
\* parsed; an empty list of records ends the loop at once
GetText(r, csv_text) ==
    /\ pc[r] = "get"
    /\ fetch' = [fetch EXCEPT ![r] = "text"]
    /\ netCalls' = [netCalls EXCEPT ![r] = @ + 1]
    /\ IF parse_turbine_csv(csv_text).raised
       THEN /\ Finish(r, ErrorResponse(Unhandled))
            /\ UNCHANGED <<turbines, idx>>
       ELSE /\ turbines' = [turbines EXCEPT ![r] = parse_turbine_csv(csv_text).records]
            /\ idx' = [idx EXCEPT ![r] = 1]
            /\ IF parse_turbine_csv(csv_text).records = <<>>
               THEN Finish(r, ImportResult(0, 0))
               ELSE /\ pc' = [pc EXCEPT ![r] = "find"]
                    /\ UNCHANGED response
    /\ UNCHANGED <<db, turbine, export_url, existing, inserted, updated,
                   storeOps, before, prev, lastWrite, arg, ret>>

\* line 156
Find(r) ==
    /\ pc[r] = "find"
    /\ existing' = [existing EXCEPT ![r] = find_one(turbine, turbines[r][idx[r]].name)]
    /\ storeOps' = [storeOps EXCEPT ![r] = @ + 1]
    /\ pc' = [pc EXCEPT ![r] = "write"]
    /\ UNCHANGED <<fetch, db, turbine, export_url, turbines, idx, inserted, updated,
                   response, netCalls, before, prev, lastWrite, arg, ret>>

\* mutant: the record is inserted whether or not the name was found
Upsert_AlwaysInsert(coll, found, t) == create_document(coll, model_dump(t))

\* lines 158-163: the catalog after the write for record t
Upsert(coll, found, t) ==
    IF found # NoDoc
    THEN update_one(coll, found._id, model_dump(t))
    ELSE create_document(coll, model_dump(t))

\* lines 157-165: the write for the record at idx, then the next record or
\* the return
Write(r) ==
    /\ pc[r] = "write"
    /\ turbine' = Upsert(turbine, existing[r], turbines[r][idx[r]])
    /\ updated' = [updated EXCEPT ![r] = IF existing[r] # NoDoc THEN @ + 1 ELSE @]
    /\ inserted' = [inserted EXCEPT ![r] = IF existing[r] # NoDoc THEN @ ELSE @ + 1]
    /\ storeOps' = [storeOps EXCEPT ![r] = @ + 1]
    /\ lastWrite' = [n \in DOMAIN lastWrite \cup {turbines[r][idx[r]].name} |->
                        IF n = turbines[r][idx[r]].name
                        THEN model_dump(turbines[r][idx[r]])
                        ELSE lastWrite[n]]
    /\ IF idx[r] = Len(turbines[r])
       THEN /\ Finish(r, ImportResult(inserted'[r], updated'[r]))
            /\ UNCHANGED idx
       ELSE /\ idx' = [idx EXCEPT ![r] = @ + 1]
            /\ pc' = [pc EXCEPT ![r] = "find"]
            /\ UNCHANGED response
    /\ UNCHANGED <<fetch, db, export_url, turbines, existing, netCalls, before, prev,
                   arg, ret>>

\* lines 156-162: the store operation raises; nothing catches it, the writes
\* made so far stay
StoreError(r) ==
    /\ pc[r] \in {"find", "write"}
    /\ storeOps' = [storeOps EXCEPT ![r] = @ + 1]
    /\ Finish(r, ErrorResponse(Unhandled))
    /\ UNCHANGED <<fetch, db, turbine, export_url, turbines, idx, existing, inserted,
                   updated, netCalls, before, prev, lastWrite, arg, ret>>

\* the response is delivered and the handler's locals are gone
Respond(r) ==
    /\ pc[r] = "done"
    /\ prev' = [turbines |-> turbines[r], status_code |-> response[r].status_code,
                inserted |-> response[r].inserted, updated |-> response[r].updated,
                stored |-> StoredNames(before[r])]
    /\ pc' = [pc EXCEPT ![r] = "idle"]
    /\ export_url' = [export_url EXCEPT ![r] = <<>>]
    /\ turbines' = [turbines EXCEPT ![r] = <<>>]
    /\ idx' = [idx EXCEPT ![r] = 0]
    /\ existing' = [existing EXCEPT ![r] = NoDoc]
    /\ inserted' = [inserted EXCEPT ![r] = 0]
    /\ updated' = [updated EXCEPT ![r] = 0]
    /\ response' = [response EXCEPT ![r] = NoResponse]
    /\ fetch' = [fetch EXCEPT ![r] = "none"]
    /\ netCalls' = [netCalls EXCEPT ![r] = 0]
    /\ storeOps' = [storeOps EXCEPT ![r] = 0]
    /\ before' = [before EXCEPT ![r] = <<>>]
    /\ UNCHANGED <<db, turbine, lastWrite, arg, ret>>

Pending == [state |-> "pending", value |-> <<>>]
NoArg == [fn |-> "none", value |-> <<>>]

InitPipeline ==
    /\ pc = [r \in Req |-> "idle"]
    /\ export_url = [r \in Req |-> <<>>]
    /\ turbines = [r \in Req |-> <<>>]
    /\ idx = [r \in Req |-> 0]
    /\ existing = [r \in Req |-> NoDoc]
    /\ inserted = [r \in Req |-> 0]
    /\ updated = [r \in Req |-> 0]
    /\ response = [r \in Req |-> NoResponse]
    /\ fetch = [r \in Req |-> "none"]
    /\ netCalls = [r \in Req |-> 0]
    /\ storeOps = [r \in Req |-> 0]
    /\ before = [r \in Req |-> <<>>]
    /\ prev = NoSummary

\* the store handle is set, or left None, once at start-up
Init ==
    /\ db \in {None, "db"}
    /\ turbine = <<>>
    /\ lastWrite = <<>>
    /\ InitPipeline
    /\ arg = NoArg
    /\ ret = Pending

\* one handler run: every step request r can take, on link u and sheet text t
Serve(r, U, T) ==
    \/ \E u \in U : ImportRequest(r, u)
    \/ GetRaises(r)
    \/ \E c \in FailStatuses : GetFails(r, c)
    \/ \E t \in T : GetText(r, t)
    \/ Find(r)
    \/ Write(r)
    \/ StoreError(r)

\* the requests are served one at a time, each running to completion
Next == Serve(1, SheetUrls, CsvTexts) \/ Respond(1)

Spec == Init /\ [][Next]_vars

\* two requests at a time, each on its own worker thread: their steps
\* interleave.  The catalog is empty or holds the document an earlier import
\* of the first line of ConcLines left.
ConcLines == {<<"T1", "active", "10.5">>, <<"T1", "inactive", "">>}

ConcTexts == {<<Header>> \o q : q \in SeqsUpTo(ConcLines, MaxConcRows)}

Earlier == RecordOf(Header, <<"T1", "active", "10.5">>)

InitConc ==
    /\ db \in {None, "db"}
    /\ \/ turbine = <<>> /\ lastWrite = <<>>
       \/ /\ db # None
          /\ turbine = create_document(<<>>, model_dump(Earlier))
          /\ lastWrite = [n \in {Earlier.name} |-> model_dump(Earlier)]
    /\ InitPipeline
    /\ arg = NoArg
    /\ ret = Pending

NextConc == \E r \in Req : Serve(r, SheetUrls, ConcTexts)

SpecConc == InitConc /\ [][NextConc]_vars

----------------------------------------------------------------------------
(* The two pure functions on their own: Init draws the input, one step      *)
(* applies the function.                                                    *)

\* fetch_google_sheet_csv up to line 97: requests.get is called with the
\* export URL ("get"), or the HTTPException is raised before it ("raised")
Resolve ==
    /\ arg.fn = "resolve"
    /\ ret = Pending
    /\ ret' = IF ResolveUrl(arg.value).raised
              THEN [state |-> "raised", value |-> ResolveUrl(arg.value).exc]
              ELSE [state |-> "get", value |-> ResolveUrl(arg.value).export_url]
    /\ UNCHANGED <<db, turbine, pc, export_url, turbines, idx, existing, inserted,
                   updated, response, fetch, netCalls, storeOps, before, prev,
                   lastWrite, arg>>

InitResolver ==
    /\ db = "db"
    /\ turbine = <<>>
    /\ lastWrite = <<>>
    /\ InitPipeline
    /\ arg \in {[fn |-> "resolve", value |-> u] : u \in Urls}
    /\ ret = Pending

SpecResolver == InitResolver /\ [][Resolve]_vars

\* parse_turbine_csv: the records returned, or the exception raised
Parse ==
    /\ arg.fn = "parse"
    /\ ret = Pending
    /\ ret' = IF parse_turbine_csv(arg.value).raised
              THEN [state |-> "raised", value |-> <<parse_turbine_csv(arg.value).exc>>]
              ELSE [state |-> "returned", value |-> parse_turbine_csv(arg.value).records]
    /\ UNCHANGED <<db, turbine, pc, export_url, turbines, idx, existing, inserted,
                   updated, response, fetch, netCalls, storeOps, before, prev,
                   lastWrite, arg>>

InitParser ==
    /\ db = "db"
    /\ turbine = <<>>
    /\ lastWrite = <<>>
    /\ InitPipeline
    /\ arg \in {[fn |-> "parse", value |-> t] : t \in ParseTexts}
    /\ ret = Pending

SpecParser == InitParser /\ [][Parse]_vars

----------------------------------------------------------------------------
(* Claims *)

Succeeded(r) == pc[r] = "done" /\ response[r].status_code = OK

\* the records of request r the loop has written
Processed(r) ==
    IF Succeeded(r) \/ turbines[r] = <<>> THEN Len(turbines[r])
    ELSE idx[r] - 1

\* the names among the first n records of ts that are not stored in coll
FreshNames(ts, n, coll) == {ts[k].name : k \in 1..n} \ StoredNames(coll)

\* the last record of that name among the first n records of ts
LastOf(ts, n, name) ==
    ts[CHOOSE k \in 1..n : ts[k].name = name /\ \A j \in (k+1)..n : ts[j].name # name]

\* C1: two successful imports in a row, each of one data row with the same
\* name, the name not stored before the first: the first returns
\* {inserted 1, updated 0}, the second {inserted 0, updated 1}, and afterwards
\* exactly one document has that name and its data fields are the record the
\* second import parsed.
C1_TwiceInARow ==
    ( /\ Succeeded(1)
      /\ Len(turbines[1]) = 1
      /\ prev.status_code = OK
      /\ Len(prev.turbines) = 1
      /\ prev.turbines[1].name = turbines[1][1].name
      /\ prev.turbines[1].name \notin prev.stored )
    => /\ prev.inserted = 1 /\ prev.updated = 0
       /\ response[1].inserted = 0 /\ response[1].updated = 1
       /\ CountName(turbine, turbines[1][1].name) = 1
       /\ Fields(find_one(turbine, turbines[1][1].name)) = turbines[1][1]

\* the second import of the same sheet with only the status changed has ended
C1_Witness ==
    /\ Succeeded(1)
    /\ Len(turbines[1]) = 1
    /\ prev.status_code = OK
    /\ Len(prev.turbines) = 1
    /\ prev.turbines[1].name = turbines[1][1].name
    /\ prev.turbines[1].name \notin prev.stored
    /\ prev.turbines[1].status = "Active"
    /\ turbines[1][1].status = "Inactive"
    /\ find_one(turbine, turbines[1][1].name).status = "Inactive"

\* C2: in one import, of the records written so far, each name not stored
\* before the import counts one insert (its first occurrence) and every other
\* record counts one update; such a name has exactly one document, holding the
\* data fields of its last occurrence so far; a returned import has
\* inserted + updated = the number of parsed records.
C2_DuplicatesInOneImport ==
    \A r \in {1} :
        (pc[r] \in {"find", "write", "done"} /\ fetch[r] = "text") =>
            /\ inserted[r] = Cardinality(FreshNames(turbines[r], Processed(r), before[r]))
            /\ updated[r] = Processed(r) - inserted[r]
            /\ \A n \in FreshNames(turbines[r], Processed(r), before[r]) :
                   /\ CountName(turbine, n) = 1
                   /\ Fields(find_one(turbine, n)) = LastOf(turbines[r], Processed(r), n)
            /\ Succeeded(r) =>
                   /\ response[r].inserted + response[r].updated = Len(turbines[r])
                   /\ response[r].inserted = inserted[r]
                   /\ response[r].updated = updated[r]

\* an import of two rows of one new name, the rows differing, has returned
C2_Witness ==
    /\ Succeeded(1)
    /\ Len(turbines[1]) = 2
    /\ turbines[1][1].name = turbines[1][2].name
    /\ turbines[1][1] # turbines[1][2]
    /\ turbines[1][1].name \notin StoredNames(before[1])
    /\ response[1].inserted = 1
    /\ response[1].updated = 1

\* C3: with the store handle None, a request ends at once with status 500:
\* no link is resolved, requests.get is not called, nothing is parsed, no
\* store operation is attempted.
C3_StoreNotConfigured ==
    db = None =>
        \A r \in Req :
            /\ pc[r] \in {"idle", "done"}
            /\ pc[r] = "done" =>
                   /\ response[r].status_code = ServerError
                   /\ response[r].detail = "Database not configured"
            /\ export_url[r] = <<>>
            /\ fetch[r] = "none"
            /\ netCalls[r] = 0
            /\ turbines[r] = <<>>
            /\ storeOps[r] = 0
            /\ turbine = <<>>

C3_Witness == db = None /\ pc[1] = "done"

\* C4: every failed fetch, a status other than 200 or an exception of
\* requests.get, is answered with a 4xx status after exactly one call of
\* requests.get, the catalog as it was before the request.
C4_FetchFailureIsClientError ==
    \A r \in {1} :
        (pc[r] = "done" /\ fetch[r] \in {"status", "raised"}) =>
            /\ response[r].status_code \in 400..499
            /\ netCalls[r] = 1
            /\ turbine = before[r]

\* C5: the parser returns for every text, with one record per line after the
\* header line, in input order; a blank line gives the record of defaults.
C5_OneRecordPerLine ==
    (arg.fn = "parse" /\ ret # Pending) =>
        /\ ret.state = "returned"
        /\ Len(ret.value) = (IF arg.value = <<>> THEN 0 ELSE Len(arg.value) - 1)
        /\ \A k \in 1..Len(ret.value) :
               /\ ret.value[k].name =
                      RecordOf(Fieldnames(arg.value), arg.value[k + 1]).name
               /\ arg.value[k + 1] = <<>> =>
                      ret.value[k] = Turbine("Unnamed Turbine", "Unknown",
                                             None, None, None, None)

\* C6 as stated: a link without "/d/" is refused with status 400.
C6_Original ==
    (arg.fn = "resolve" /\ ret # Pending /\ ~Contains(arg.value, "/d/")) =>
        /\ ret.state = "raised"
        /\ ret.value.status_code = BadRequest

\* C6 amended: a link with neither "export?format=csv" nor "/d/" is refused
\* with status 400 and requests.get is not called; a link with
\* "export?format=csv" is passed to requests.get unchanged, "/d/" or not.
C6_Amended ==
    (arg.fn = "resolve" /\ ret # Pending) =>
        /\ ( /\ ~Contains(arg.value, "/d/")
             /\ ~Contains(arg.value, "export?format=csv") ) =>
               /\ ret.state = "raised"
               /\ ret.value = HTTPException(BadRequest, "Invalid Google Sheets URL")
        /\ Contains(arg.value, "export?format=csv") =>
               /\ ret.state = "get"
               /\ ret.value = arg.value

C6_Witness ==
    /\ arg.fn = "resolve"
    /\ ret.state = "raised"
    /\ Contains(arg.value, "gid=")
    /\ Contains(arg.value, "ID")

\* the part of s before the first token of stops
RECURSIVE UpTo(_, _)
UpTo(s, stops) ==
    IF s = <<>> \/ Head(s) \in stops THEN <<>>
    ELSE <<Head(s)>> \o UpTo(Tail(s), stops)

\* the part of s after the first x
After(s, x) == SubSeq(s, IndexOf(s, x) + 1, Len(s))

\* a share link .../d/{id}/... that is not an export link
IsShareLink(u) ==
    /\ ~Contains(u, "export?format=csv")
    /\ Contains(u, "/d/")
    /\ \E k \in 1..Len(After(u, "/d/")) : After(u, "/d/")[k] \in {"/", "/d/"}

\* C7: a share link gives the export URL of its id, followed by "&gid=" and
\* the link's gid value (the text after the first "gid=" up to the next "&" or
\* the end) when the link has "gid=", by nothing when it has not.
C7_ExactIdAndGid ==
    (arg.fn = "resolve" /\ ret # Pending /\ IsShareLink(arg.value)) =>
        /\ ret.state = "get"
        /\ ret.value =
              <<"https://docs.google.com/spreadsheets/d/">>
                 \o UpTo(After(arg.value, "/d/"), {"/", "/d/"})
                 \o (IF Contains(arg.value, "gid=")
                     THEN <<"/export?format=csv&gid=">>
                             \o UpTo(After(arg.value, "gid="), {"&"})
                     ELSE <<"/export?format=csv">>)

\* C8: a write that finds the name stored replaces the six data fields of that
\* document by the record's, None included; the document keeps its _id, the
\* number of documents stays, every other document is unchanged.
C8_UpdateReplacesAllFields ==
    [][ \A r \in {1} :
          (pc[r] = "write" /\ updated'[r] = updated[r] + 1) =>
              /\ Len(turbine') = Len(turbine)
              /\ \A k \in 1..Len(turbine) :
                    IF turbine[k].name = turbines[r][idx[r]].name
                    THEN /\ turbine'[k]._id = turbine[k]._id
                         /\ Fields(turbine'[k]) = turbines[r][idx[r]]
                    ELSE turbine'[k] = turbine[k] ]_vars

\* an update has just set a stored latitude to None, another document present
C8_Witness ==
    /\ pc[1] \in {"find", "done"}
    /\ updated[1] > 0
    /\ existing[1] # NoDoc
    /\ existing[1].latitude # None
    /\ \E k \in 1..Len(turbine) :
           turbine[k]._id = existing[1]._id /\ turbine[k].latitude = None
    /\ Len(turbine) > 1

\* C9 as stated: when two imports have both returned, a name both contain has
\* one document, holding the data fields of the last write of that name.
BothReturned == Succeeded(1) /\ Succeeded(2)

Common == {turbines[1][k].name : k \in 1..Len(turbines[1])}
             \cap {turbines[2][k].name : k \in 1..Len(turbines[2])}

NoDuplicateNames ==
    \A j, k \in 1..Len(turbine) : turbine[j].name = turbine[k].name => j = k

\* C10: with the imports run one at a time from an empty catalog, no two
\* documents have the same name, the number of documents never decreases, and
\* a returned import has added exactly its inserted count.
C10_SequentialCatalog ==
    [][ /\ NoDuplicateNames'
        /\ Len(turbine') >= Len(turbine)
        /\ (pc'[1] = "done" /\ response'[1].status_code = OK) =>
               Len(turbine') = Len(before'[1]) + response'[1].inserted ]_vars

\* an import has returned having added to a catalog that was not empty, after
\* a request that failed
C10_Witness ==
    /\ Succeeded(1)
    /\ response[1].inserted > 0
    /\ Len(before[1]) > 0
    /\ prev.status_code = ServerError

====
